---- MODULE Spec2Model ----
(***************************************************************************)
(* PhysicsTools/MVAComputer: the two variable processors ProcLikelihood    *)
(* and ProcNormalize (src/src/ProcLikelihood.cc, src/src/ProcNormalize.cc). *)
(* A processor is constructed from a calibration record, configured once   *)
(* with the number n of input slots, and then evaluated once per event.    *)
(***************************************************************************)
EXTENDS Integers, Sequences, FiniteSets, TLC

(***************************************************************************)
(* Bounds of the model.                                                    *)
(***************************************************************************)
MaxSlots == 3
MaxVals == 2
MaxTable == 4

(***************************************************************************)
(* double: exact decimal numbers <<m, e>> standing for m * 10^e.           *)
(***************************************************************************)
RECURSIVE Pow10(_)
Pow10(k) == IF k <= 0 THEN 1 ELSE 10 * Pow10(k - 1)

MinInt(a, b) == IF a < b THEN a ELSE b

Zero == <<0, 0>>
One == <<1, 0>>

NumMul(a, b) == <<a[1] * b[1], a[2] + b[2]>>

NumAdd(a, b) ==
    LET e == MinInt(a[2], b[2])
    IN  <<a[1] * Pow10(a[2] - e) + b[1] * Pow10(b[2] - e), e>>

NumSub(a, b) == NumAdd(a, <<-b[1], b[2]>>)

\* a < b, without ever forming a mantissa larger than the operands'
NumLess(a, b) ==
    IF a[2] = b[2] THEN a[1] < b[1]
    ELSE IF a[2] > b[2]
         THEN LET d == a[2] - b[2]
              IN  IF d >= 10 THEN a[1] <= (IF b[1] >= 1 THEN 0 ELSE -1)
                  ELSE a[1] <= ((b[1] - 1) \div Pow10(d))
         ELSE LET d == b[2] - a[2]
              IN  IF d >= 10 THEN b[1] > (IF a[1] >= 0 THEN 0 ELSE -1)
                  ELSE b[1] > (a[1] \div Pow10(d))

NumEq(a, b) == ~NumLess(a, b) /\ ~NumLess(b, a)

\* (int) of a double: truncation toward zero
CastInt(a) ==
    IF a[2] >= 0 THEN a[1] * Pow10(a[2])
    ELSE IF a[1] >= 0 THEN a[1] \div Pow10(-a[2])
         ELSE -((-a[1]) \div Pow10(-a[2]))

\* a / b, kept as the quotient of its operands
Quot(a, b) == [num |-> a, den |-> b]

(***************************************************************************)
(* std::exp(-6 * vars - 2): exp is irrational, so it is bracketed by       *)
(* decimals, ExpLo(vars) < exp(-6*vars-2) < ExpHi(vars), and a comparison  *)
(* against it is defined only when the bracket decides it.                 *)
(***************************************************************************)
RECURSIVE RoundDown4(_)
RoundDown4(a) == IF a[1] < 10000 THEN a ELSE RoundDown4(<<a[1] \div 10, a[2] + 1>>)

RECURSIVE RoundUp4(_)
RoundUp4(a) == IF a[1] < 10000 THEN a ELSE RoundUp4(<<(a[1] + 9) \div 10, a[2] + 1>>)

RECURSIVE ExpLo(_)
ExpLo(v) == IF v <= 0 THEN <<1353, -4>>
            ELSE RoundDown4(NumMul(ExpLo(v - 1), <<2478, -6>>))

RECURSIVE ExpHi(_)
ExpHi(v) == IF v <= 0 THEN <<1354, -4>>
            ELSE RoundUp4(NumMul(ExpHi(v - 1), <<2479, -6>>))

\* x < std::exp(-6 * v - 2)
LessExp(x, v) ==
    CHOOSE b \in BOOLEAN : /\ b <=> NumLess(x, ExpLo(v))
                           /\ b <=> NumLess(x, ExpHi(v))

(***************************************************************************)
(* Calibration records and events the model draws from.                    *)
(***************************************************************************)
Kinds == {"ProcLikelihood", "ProcNormalize"}
CategoryIdxs == {-1} \cup (0 .. MaxSlots - 1)
Biases == {<<-1, 0>>, <<1, 0>>, <<2, 0>>}

\* values a variable slot may hold, and values of the category selector
DataValues == {<<0, 0>>, <<15, -1>>}
CatValues == {<<-1, 0>>, <<0, 0>>, <<1, 0>>, <<2, 0>>}

SeqsUpTo(S, k) == UNION {[1 .. m -> S] : m \in 0 .. k}
SlotContents == SeqsUpTo(DataValues, MaxVals)
CatContents == {<<c>> : c \in CatValues}

Threads == {"t1", "t2"}

VARIABLES
    kind,          \* which of the two processors this instance is
    pdfsSize,      \* pdfs.size() / maps.size()
    categoryIdx,   \* calib->categoryIdx
    nCategories,   \* 1 after construction, set by configure
    bias,          \* calib->bias (ProcLikelihood)
    cfg,           \* "new", or how configure ended: "ok", "failed", "trapped"
    nSlots,        \* the n configure was called with
    declIn,        \* input flags declared through the ConfIterator
    declOut,       \* outputs declared through the ConfIterator
    divisors,      \* the divisors configure divided by
    pc,            \* per call of eval: where it stands
    events,        \* per call of eval: the input slots behind its ValueIterator
    garb,          \* per call of eval: what a read past an empty slot finds
    frames         \* the automatic variables of eval, and what it emitted

procState == <<kind, pdfsSize, categoryIdx, nCategories, bias>>
cfgState == <<cfg, nSlots, declIn, declOut, divisors>>
evalState == <<pc, events, garb, frames>>
vars == <<kind, pdfsSize, categoryIdx, nCategories, bias, cfg, nSlots,
          declIn, declOut, divisors, pc, events, garb, frames>>

(***************************************************************************)
(* The calibrated curves.  PDF::eval and the normalization map are looked  *)
(* up in fixed tables: entry k of the table and the bin the value falls in *)
(* select a (signal, background) density pair.                             *)
(***************************************************************************)
PairTable ==
    << << <<5, -1>>,  <<5, -1>>  >>,    \* 0.5, 0.5
       << <<1, -4>>,  <<1, -4>>  >>,    \* 1e-4, 1e-4
       << <<1, -1>>,  <<3, -1>>  >>,    \* 0.1, 0.3
       << <<-2, -1>>, <<0, -1>>  >>,    \* -0.2, 0.0 (interpolation artifact)
       << <<4, -31>>, <<4, -31>> >>,    \* 4e-31, 4e-31
       << <<6, -31>>, <<6, -31>> >>,    \* 6e-31, 6e-31
       << <<-3, -1>>, <<5, -1>>  >>,    \* -0.3, 0.5
       << <<2, -1>>,  <<0, -1>>  >> >>  \* 0.2, 0.0

PdfBin(v) == IF NumLess(v, One) THEN 0 ELSE 1

PdfSignalEval(k, v) == PairTable[((2 * k + PdfBin(v)) % 8) + 1][1]
PdfBackgroundEval(k, v) == PairTable[((2 * k + PdfBin(v)) % 8) + 1][2]

MapMin(k) == <<1 - (k % 3), 0>>
MapWidth(k) == <<1 + (k % 2), 0>>

\* spline.integral(u): the cumulative integral of a flat curve over [0, 1]
SplineIntegral(k, u) ==
    IF NumLess(u.num, Zero) THEN Quot(Zero, One)
    ELSE IF NumLess(u.den, u.num) THEN Quot(One, One)
    ELSE u

(***************************************************************************)
(* configure                                                               *)
(***************************************************************************)
\* a / b on unsigned integers; dividing by zero is undefined: the call
\* traps, or goes on with any quotient
Divide(a, b) ==
    IF b # 0 THEN {[trap |-> FALSE, q |-> a \div b]}
    ELSE {[trap |-> TRUE, q |-> 0]} \cup {[trap |-> FALSE, q |-> x] : x \in 0 .. MaxTable}

\* the shape validation both configure methods start with
ShapeOutcomes(n) ==
    IF categoryIdx >= 0
    THEN IF n < categoryIdx + 1
         THEN {[end |-> "failed", nCat |-> nCategories, div |-> {}]}
         ELSE {IF d.trap
               THEN [end |-> "trapped", nCat |-> nCategories, div |-> {n - 1}]
               ELSE [end |-> IF d.q * (n - 1) # pdfsSize THEN "failed" ELSE "ok",
                     nCat |-> d.q, div |-> {n - 1}]
               : d \in Divide(pdfsSize, n - 1)}
    ELSE {[end |-> IF n # pdfsSize THEN "failed" ELSE "ok",
           nCat |-> nCategories, div |-> {}]}

\* while(iter): the flag given to each input slot
InputFlags(n) ==
    [j \in 1 .. n |-> IF categoryIdx = j - 1 THEN "FLAG_NONE" ELSE "FLAG_ALL"]

ConfigureLikelihood(n) ==
    /\ kind = "ProcLikelihood"
    /\ cfg = "new"
    /\ \E o \in ShapeOutcomes(n) :
          /\ cfg' = o.end
          /\ nCategories' = o.nCat
          /\ divisors' = o.div
          /\ declIn' = IF o.end = "ok" THEN InputFlags(n) ELSE <<>>
          /\ declOut' = IF o.end = "ok" THEN <<"FLAG_OPTIONAL">> ELSE <<>>
    /\ nSlots' = n
    /\ UNCHANGED <<kind, pdfsSize, categoryIdx, bias, evalState>>

ConfigureNormalize(n) ==
    /\ kind = "ProcNormalize"
    /\ cfg = "new"
    /\ \E o \in ShapeOutcomes(n) :
          /\ cfg' = o.end
          /\ nCategories' = o.nCat
          /\ divisors' = o.div
          /\ declIn' = IF o.end = "ok" THEN InputFlags(n) ELSE <<>>
          /\ declOut' = IF o.end = "ok"
                        THEN SelectSeq(InputFlags(n), LAMBDA f : f = "FLAG_ALL")
                        ELSE <<>>
    /\ nSlots' = n
    /\ UNCHANGED <<kind, pdfsSize, categoryIdx, bias, evalState>>

(***************************************************************************)
(* eval.  A call stands at "begin" (category resolution), "loop" (one      *)
(* iteration of the slot loop), "decide" (ProcLikelihood's final test) or  *)
(* "done".  Its automatic variables:                                       *)
(*   i, pdf, last : the slot index and the table iterators (0-based)       *)
(*   cat          : the category as read                                   *)
(*   vars, signal, background : ProcLikelihood's accumulators              *)
(*   out          : the outputs closed so far, each a sequence of values   *)
(*   used         : the <<slot, table entry>> pairs evaluated so far       *)
(***************************************************************************)
Locals0 ==
    [i |-> 0, pdf |-> 0, last |-> 0, cat |-> 0, vars |-> 0,
     signal |-> Zero, background |-> Zero, out |-> <<>>, used |-> <<>>]

\* the densities taken as the curves return them, unclamped
NumMax0_Unclamped(x) == x

\* std::max(0.0, x)
NumMax0(x) == IF x[1] < 0 THEN <<0, x[2]>> ELSE x

\* (int)*iter: the cursor still stands on the first slot; on an empty slot
\* the read finds whatever lies behind it
CategoryRead(ev, g) == CastInt(IF Len(ev[1]) > 0 THEN ev[1][1] ELSE g)

\* blocks taken to be n entries long
BlockFirst_WholeSlots(cat, n) == cat * n

\* pdfs.begin() + cat * (n - 1)
BlockFirst(cat, n) == cat * (n - 1)

\* the value loop of ProcLikelihood::eval over one slot, against entry k
RECURSIVE AccumulateValues(_, _, _)
AccumulateValues(vals, k, a) ==
    IF vals = <<>> THEN a
    ELSE LET signalProb == NumMax0(PdfSignalEval(k, Head(vals)))
             backgroundProb == NumMax0(PdfBackgroundEval(k, Head(vals)))
         IN  AccumulateValues(Tail(vals), k,
                IF NumLess(NumAdd(signalProb, backgroundProb), <<1, -30>>)
                THEN a
                ELSE [vars |-> a.vars + 1,
                      signal |-> NumMul(a.signal, signalProb),
                      background |-> NumMul(a.background, backgroundProb)])

\* the plain ratio signal / background
LikelihoodRatio_OverBackground(signal, background) == Quot(signal, background)

\* signal / (signal + background)
LikelihoodRatio(signal, background) == Quot(signal, NumAdd(signal, background))

LikelihoodBegin(ev, g, L) ==
    IF categoryIdx >= 0
    THEN LET cat == CategoryRead(ev, g)
         IN  IF cat < 0 \/ cat >= nCategories
             THEN [pc |-> "done",
                   L |-> [L EXCEPT !.cat = cat, !.out = Append(@, <<>>)]]
             ELSE [pc |-> "loop",
                   L |-> [L EXCEPT !.cat = cat,
                                   !.pdf = BlockFirst(cat, Len(ev)),
                                   !.last = BlockFirst(cat, Len(ev)) + (Len(ev) - 1),
                                   !.signal = bias, !.background = One]]
    ELSE [pc |-> "loop",
          L |-> [L EXCEPT !.pdf = 0, !.last = pdfsSize,
                          !.signal = bias, !.background = One]]

LikelihoodLoop(ev, L) ==
    IF L.pdf = L.last THEN [pc |-> "decide", L |-> L]
    ELSE IF L.i = categoryIdx THEN [pc |-> "loop", L |-> [L EXCEPT !.i = @ + 1]]
    ELSE LET a == AccumulateValues(ev[L.i + 1], L.pdf,
                     [vars |-> L.vars, signal |-> L.signal,
                      background |-> L.background])
         IN  [pc |-> "loop",
              L |-> [L EXCEPT !.vars = a.vars, !.signal = a.signal,
                              !.background = a.background,
                              !.used = Append(@, <<L.i, L.pdf>>),
                              !.pdf = @ + 1, !.i = @ + 1]]

LikelihoodDecide(L) ==
    IF L.vars = 0 \/ LessExp(NumAdd(L.signal, L.background), L.vars)
    THEN [pc |-> "done", L |-> [L EXCEPT !.out = Append(@, <<>>)]]
    ELSE [pc |-> "done",
          L |-> [L EXCEPT !.out = Append(@, <<LikelihoodRatio(L.signal, L.background)>>)]]

\* val = (val - map->min) / map->width; val = map->spline.integral(val)
NormalizeValue(k, v) == SplineIntegral(k, Quot(NumSub(v, MapMin(k)), MapWidth(k)))

\* for(; iter; ++iter) iter();
EmptyOutputs(ev) == [j \in 1 .. Len(ev) |-> <<>>]

NormalizeBegin(ev, g, L) ==
    IF categoryIdx >= 0
    THEN LET cat == CategoryRead(ev, g)
         IN  IF cat < 0 \/ cat >= nCategories
             THEN [pc |-> "done",
                   L |-> [L EXCEPT !.cat = cat, !.out = @ \o EmptyOutputs(ev)]]
             ELSE [pc |-> "loop",
                   L |-> [L EXCEPT !.cat = cat,
                                   !.pdf = BlockFirst(cat, Len(ev)),
                                   !.last = BlockFirst(cat, Len(ev)) + (Len(ev) - 1)]]
    ELSE [pc |-> "loop", L |-> [L EXCEPT !.pdf = 0, !.last = pdfsSize]]

NormalizeLoop(ev, L) ==
    IF L.pdf = L.last THEN [pc |-> "done", L |-> L]
    ELSE IF L.i = categoryIdx THEN [pc |-> "loop", L |-> [L EXCEPT !.i = @ + 1]]
    ELSE [pc |-> "loop",
          L |-> [L EXCEPT !.out = Append(@, [k \in 1 .. Len(ev[L.i + 1]) |->
                                                NormalizeValue(L.pdf, ev[L.i + 1][k])]),
                          !.used = Append(@, <<L.i, L.pdf>>),
                          !.pdf = @ + 1, !.i = @ + 1]]

\* one step of a call standing at p
EvalStep(p, ev, g, L) ==
    IF kind = "ProcLikelihood"
    THEN CASE p = "begin" -> LikelihoodBegin(ev, g, L)
           [] p = "loop" -> LikelihoodLoop(ev, L)
           [] OTHER -> LikelihoodDecide(L)
    ELSE CASE p = "begin" -> NormalizeBegin(ev, g, L)
           [] OTHER -> NormalizeLoop(ev, L)

\* a call run from p to its return
RECURSIVE RunCall(_, _, _, _)
RunCall(p, ev, g, L) ==
    IF p = "done" THEN L
    ELSE LET r == EvalStep(p, ev, g, L) IN RunCall(r.pc, ev, g, r.L)

\* the events the pipeline presents after a successful configure: n slots,
\* the category slot holding its single selector value
Events(n) ==
    {ev \in [1 .. n -> SlotContents \cup CatContents] :
        \A j \in 1 .. n : IF j = categoryIdx + 1 THEN ev[j] \in CatContents
                          ELSE ev[j] \in SlotContents}

\* what (int)*iter may find when the first slot is empty
Garbage(ev) ==
    IF categoryIdx > 0 /\ Len(ev[1]) = 0 THEN CatValues ELSE {Zero}

\* the variables of eval with static storage: one frame for all calls
Frame_Static(t) == "t1"

\* the automatic variables of the call made by thread t
Frame(t) == t

(***************************************************************************)
(* Spec: one processor, configured once, then evaluated event by event.    *)
(***************************************************************************)
Init ==
    /\ kind \in Kinds
    /\ pdfsSize \in 0 .. MaxTable
    /\ categoryIdx \in CategoryIdxs
    /\ nCategories = 1
    /\ bias \in (IF kind = "ProcLikelihood" THEN Biases ELSE {One})
    /\ cfg = "new"
    /\ nSlots = 0
    /\ declIn = <<>>
    /\ declOut = <<>>
    /\ divisors = {}
    /\ pc = [t \in Threads |-> "idle"]
    /\ events = [t \in Threads |-> <<>>]
    /\ garb = [t \in Threads |-> Zero]
    /\ frames = [t \in Threads |-> Locals0]

EvalLikelihood ==
    /\ kind = "ProcLikelihood"
    /\ cfg = "ok"
    /\ pc["t1"] = "idle"
    /\ \E ev \in Events(nSlots) : \E g \in Garbage(ev) :
          /\ events' = [events EXCEPT !["t1"] = ev]
          /\ garb' = [garb EXCEPT !["t1"] = g]
          /\ frames' = [frames EXCEPT ![Frame("t1")] = RunCall("begin", ev, g, Locals0)]
    /\ pc' = [pc EXCEPT !["t1"] = "done"]
    /\ UNCHANGED <<procState, cfgState>>

EvalNormalize ==
    /\ kind = "ProcNormalize"
    /\ cfg = "ok"
    /\ pc["t1"] = "idle"
    /\ \E ev \in Events(nSlots) : \E g \in Garbage(ev) :
          /\ events' = [events EXCEPT !["t1"] = ev]
          /\ garb' = [garb EXCEPT !["t1"] = g]
          /\ frames' = [frames EXCEPT ![Frame("t1")] = RunCall("begin", ev, g, Locals0)]
    /\ pc' = [pc EXCEPT !["t1"] = "done"]
    /\ UNCHANGED <<procState, cfgState>>

\* the call has returned and its outputs are taken: the frame is gone
EvalReturn(t) ==
    /\ pc[t] = "done"
    /\ pc' = [pc EXCEPT ![t] = "idle"]
    /\ events' = [events EXCEPT ![t] = <<>>]
    /\ garb' = [garb EXCEPT ![t] = Zero]
    /\ frames' = [frames EXCEPT ![Frame(t)] = Locals0]
    /\ UNCHANGED <<procState, cfgState>>

Next ==
    \/ \E n \in 0 .. MaxSlots : ConfigureLikelihood(n)
    \/ \E n \in 0 .. MaxSlots : ConfigureNormalize(n)
    \/ EvalLikelihood
    \/ EvalNormalize
    \/ EvalReturn("t1")

Spec == Init /\ [][Next]_vars

Done1 == pc["t1"] = "done"
L1 == frames["t1"]
Ev1 == events["t1"]

(***************************************************************************)
(* SpecConc: after configure, two threads evaluate independent events on   *)
(* the same processor, their calls interleaved step by step.               *)
(***************************************************************************)
\* events whose variable slots all carry the same, at most single, value
ConcEvents(n) ==
    {[j \in 1 .. n |-> IF j = categoryIdx + 1 THEN c ELSE d] :
        c \in CatContents, d \in {x \in SlotContents : Len(x) <= 1}}

StartEval(t) ==
    /\ cfg = "ok"
    /\ pc[t] = "idle"
    /\ \E ev \in ConcEvents(nSlots) : \E g \in Garbage(ev) :
          /\ events' = [events EXCEPT ![t] = ev]
          /\ garb' = [garb EXCEPT ![t] = g]
    /\ pc' = [pc EXCEPT ![t] = "begin"]
    /\ frames' = [frames EXCEPT ![Frame(t)] = Locals0]
    /\ UNCHANGED <<procState, cfgState>>

StepEval(t) ==
    /\ pc[t] \in {"begin", "loop", "decide"}
    /\ LET r == EvalStep(pc[t], events[t], garb[t], frames[Frame(t)])
       IN  /\ pc' = [pc EXCEPT ![t] = r.pc]
           /\ frames' = [frames EXCEPT ![Frame(t)] = r.L]
    /\ UNCHANGED <<procState, cfgState, events, garb>>

NextConc ==
    \/ \E n \in 0 .. MaxSlots : ConfigureLikelihood(n)
    \/ \E n \in 0 .. MaxSlots : ConfigureNormalize(n)
    \/ \E t \in Threads : StartEval(t)
    \/ \E t \in Threads : StepEval(t)
    \/ \E t \in Threads : EvalReturn(t)

SpecConc == Init /\ [][NextConc]_vars

(***************************************************************************)
(* Notions the claims are stated in.                                       *)
(***************************************************************************)
\* the category an event carries: the value in the slot at categoryIdx
SlotCategory(ev) == CastInt(ev[categoryIdx + 1][1])

OutOfRange(c) == c < 0 \/ c >= nCategories

\* the slots other than the category slot, in slot order (0-based)
OtherSlots(n) == SelectSeq([j \in 1 .. n |-> j - 1], LAMBDA x : x # categoryIdx)

\* the accumulators of the likelihood over the block of the event's category
BlockAccumulators(ev) ==
    LET first == IF categoryIdx >= 0 THEN SlotCategory(ev) * (Len(ev) - 1) ELSE 0
        last == IF categoryIdx >= 0 THEN first + (Len(ev) - 1) ELSE pdfsSize
    IN  RunCall("loop", ev, Zero,
                [Locals0 EXCEPT !.pdf = first, !.last = last,
                                !.signal = bias, !.background = One])

InUnitInterval(q) ==
    /\ NumLess(Zero, q.den)
    /\ ~NumLess(q.num, Zero)
    /\ ~NumLess(q.den, q.num)

IsHalf(q) == NumEq(NumMul(<<2, 0>>, q.num), q.den)

Emitted(L) == Len(L.out) = 1 /\ Len(L.out[1]) = 1
Abstained(L) == Len(L.out) = 1 /\ L.out[1] = <<>>

\* a processor with a non-empty table whose configure divided by n-1 >= 1
PlainShape == pdfsSize >= 1 /\ 0 \notin divisors

(***************************************************************************)
(* C1.  Whenever categoryIdx >= 0, eval takes the category from the slot   *)
(* at position categoryIdx, whatever the other slots hold.                 *)
(***************************************************************************)
C1_CategoryFromItsSlot ==
    (Done1 /\ PlainShape /\ categoryIdx >= 0) => L1.cat = SlotCategory(Ev1)

(***************************************************************************)
(* C2.  ProcNormalize with a category out of range closes exactly one      *)
(* empty output per non-category slot (n-1, as configure declared) and     *)
(* evaluates no map.                                                       *)
(***************************************************************************)
C2_NormalizeAbstainsPerOtherSlot ==
    (Done1 /\ PlainShape /\ kind = "ProcNormalize" /\ categoryIdx >= 0
           /\ OutOfRange(SlotCategory(Ev1)))
        => /\ L1.out = [j \in 1 .. Len(Ev1) - 1 |-> <<>>]
           /\ Len(L1.out) = Len(declOut)
           /\ L1.used = <<>>

(***************************************************************************)
(* C3.  configure succeeds, declaring the slots and outputs, exactly when  *)
(* the table size is a multiple c*(n-1) of the block size and n reaches    *)
(* the category slot, or there is no category and n equals the table size; *)
(* otherwise it fails and declares nothing.                                *)
(***************************************************************************)
ShapeAccepted ==
    \/ /\ categoryIdx >= 0
       /\ nSlots >= categoryIdx + 1
       /\ \E c \in 0 .. pdfsSize : c * (nSlots - 1) = pdfsSize
    \/ /\ categoryIdx < 0
       /\ nSlots = pdfsSize

C3_ConfigureExactlyOnShape ==
    (cfg # "new") =>
        IF ShapeAccepted
        THEN cfg = "ok" /\ Len(declIn) = nSlots
        ELSE cfg # "ok" /\ declIn = <<>> /\ declOut = <<>>

\* C3 restricted to calls of configure that divide by no zero
C3_ConfigureExactlyOnShape_NoZeroDivisor == (0 \notin divisors) => C3_ConfigureExactlyOnShape

(***************************************************************************)
(* C4.  ProcLikelihood::eval performs exactly one output action; it is the *)
(* abstention iff the category is out of range, or no value was            *)
(* informative, or signal + background < exp(-6*count - 2); otherwise it   *)
(* is the value signal / (signal + background).                            *)
(***************************************************************************)
C4_LikelihoodDecision ==
    (Done1 /\ PlainShape /\ kind = "ProcLikelihood") =>
        /\ Emitted(L1) \/ Abstained(L1)
        /\ Abstained(L1) <=>
              \/ categoryIdx >= 0 /\ OutOfRange(SlotCategory(Ev1))
              \/ BlockAccumulators(Ev1).vars = 0
              \/ LessExp(NumAdd(BlockAccumulators(Ev1).signal,
                                BlockAccumulators(Ev1).background),
                         BlockAccumulators(Ev1).vars)
        /\ Emitted(L1) =>
              L1.out[1][1] = Quot(BlockAccumulators(Ev1).signal,
                                  NumAdd(BlockAccumulators(Ev1).signal,
                                         BlockAccumulators(Ev1).background))

\* C4 restricted to processors whose category slot, if any, is the first
C4_LikelihoodDecision_FirstSlot == (categoryIdx <= 0) => C4_LikelihoodDecision

(***************************************************************************)
(* C5.  As claimed: every value ProcLikelihood emits lies in [0, 1], for   *)
(* every bias.  As amended: for every bias >= 0.                           *)
(***************************************************************************)
C5_EmittedInUnitInterval_AnyBias ==
    (Done1 /\ kind = "ProcLikelihood" /\ Emitted(L1))
        => InUnitInterval(L1.out[1][1])

C5_EmittedInUnitInterval ==
    (Done1 /\ kind = "ProcLikelihood" /\ Emitted(L1) /\ ~NumLess(bias, Zero))
        => InUnitInterval(L1.out[1][1])

C5_Witness ==
    /\ Done1 /\ kind = "ProcLikelihood" /\ Emitted(L1)
    /\ NumEq(bias, <<2, 0>>)
    /\ L1.vars >= 2
    /\ NumLess(Zero, L1.out[1][1].num)
    /\ NumLess(L1.out[1][1].num, L1.out[1][1].den)

(***************************************************************************)
(* C6.  As claimed: with bias = 1 and exactly one informative value whose  *)
(* signal and background densities are equal, eval emits 0.5, however      *)
(* small the density.  As amended: provided the sum of the two densities   *)
(* is not below exp(-8).                                                   *)
(***************************************************************************)
OneBalancedValue ==
    /\ Done1 /\ kind = "ProcLikelihood"
    /\ NumEq(bias, One)
    /\ L1.vars = 1
    /\ NumEq(L1.signal, L1.background)

C6_HalfHoweverSmall ==
    OneBalancedValue => (Emitted(L1) /\ IsHalf(L1.out[1][1]))

C6_HalfAboveGuard ==
    (OneBalancedValue /\ ~LessExp(NumAdd(L1.signal, L1.background), 1))
        => (Emitted(L1) /\ IsHalf(L1.out[1][1]))

C6_Witness ==
    /\ OneBalancedValue
    /\ ~LessExp(NumAdd(L1.signal, L1.background), 1)
    /\ Emitted(L1) /\ IsHalf(L1.out[1][1])

(***************************************************************************)
(* C7.  ProcNormalize with a category in range (or none): per non-category *)
(* slot as many values are emitted as the slot holds, the k-th being the   *)
(* image of the k-th input under the slot's map, one output per slot.      *)
(***************************************************************************)
C7_NormalizePreservesArity ==
    (Done1 /\ PlainShape /\ kind = "ProcNormalize"
           /\ (categoryIdx < 0 \/ ~OutOfRange(SlotCategory(Ev1))))
        => LET slots == OtherSlots(Len(Ev1))
               first == IF categoryIdx >= 0
                        THEN SlotCategory(Ev1) * (Len(Ev1) - 1) ELSE 0
           IN  /\ Len(L1.out) = Len(slots)
               /\ \A j \in 1 .. Len(slots) :
                     /\ j <= Len(L1.out)
                     /\ Len(L1.out[j]) = Len(Ev1[slots[j] + 1])
                     /\ \A k \in 1 .. Len(L1.out[j]) :
                           L1.out[j][k] =
                               NormalizeValue(first + j - 1, Ev1[slots[j] + 1][k])

\* C7 restricted to processors whose category slot, if any, is the first
C7_NormalizePreservesArity_FirstSlot == (categoryIdx <= 0) => C7_NormalizePreservesArity

(***************************************************************************)
(* C9.  With an accepted category cat (or none) eval uses exactly the      *)
(* table entries cat*(n-1) .. cat*(n-1)+(n-1)-1 (the whole table without   *)
(* categories), all inside the table, the j-th non-category slot against   *)
(* the j-th entry of the block, the category slot against none.            *)
(***************************************************************************)
C9_BlockPairing ==
    (Done1 /\ (categoryIdx < 0 \/ ~OutOfRange(L1.cat))) =>
        LET n == Len(Ev1)
            slots == OtherSlots(n)
            first == IF categoryIdx >= 0 THEN L1.cat * (n - 1) ELSE 0
            size == IF categoryIdx >= 0 THEN n - 1 ELSE pdfsSize
        IN  /\ Len(L1.used) = size
            /\ Len(slots) = size
            /\ \A j \in 1 .. Len(L1.used) :
                  /\ L1.used[j] = <<slots[j], first + j - 1>>
                  /\ L1.used[j][2] \in 0 .. pdfsSize - 1

C9_Witness ==
    /\ Done1
    /\ categoryIdx = 1 /\ Len(Ev1) = 3
    /\ L1.cat = 1
    /\ L1.used = << <<0, 2>>, <<2, 3>> >>

(***************************************************************************)
(* C10.  configure never divides by zero: every divisor n-1 is at least 1. *)
(***************************************************************************)
C10_DivisorAtLeastOne == \A d \in divisors : d >= 1

(***************************************************************************)
(* C8.  eval changes nothing of the processor: once configured, pdfs,      *)
(* categoryIdx, nCategories and bias stay as they are, and under every     *)
(* interleaving each call returns what it returns when run alone.          *)
(***************************************************************************)
EachCallAsAlone ==
    \A t \in Threads :
        pc[t] = "done" =>
            frames[Frame(t)].out = RunCall("begin", events[t], garb[t], Locals0).out

C8_EvalReadOnly ==
    /\ []EachCallAsAlone
    /\ [][cfg # "new" => UNCHANGED procState]_vars

C8_Witness ==
    /\ pc["t1"] = "done" /\ Abstained(frames["t1"])
    /\ pc["t2"] = "loop" /\ frames["t2"].used # <<>>
    /\ events["t1"] # events["t2"]

====
